---- MODULE Spec2Model ----
(***************************************************************************)
(* A model of the serprog firmware's protocol engine:                      *)
(*   - Buffer            (src/src/buffer.rs)                               *)
(*   - Command::parse    (src/src/command.rs, src/src/opcode.rs)           *)
(*   - ResponsePacket    (src/src/response_packet.rs)                      *)
(*   - SerProg and main  (src/src/serprog.rs, src/src/main.rs)             *)
(*   - SpiManager        (src/src/spi.rs)                                  *)
(* Bytes are naturals 0..255, slices are sequences, and a Rust index i of  *)
(* a slice is position i+1 of the sequence.                                *)
(***************************************************************************)
EXTENDS Integers, Sequences, FiniteSets, TLC

(***************************************************************************)
(* Bounds of the model.                                                    *)
(***************************************************************************)
\* Length of the backing store of the Buffer exercised by BufSpec.
Capacity == 3
\* Longest slice handed to Buffer::write, and largest max_count/amt.
MaxData == 3

\* Byte values the Buffer's clients write (the store starts zeroed).
DataBytes == {1, 2}

\* Longest input handed to Command::parse by CodecSpec.
MaxInput == 9
\* Longest destination slice handed to ResponsePacket::to_bytes by EncSpec.
MaxDst == 35

\* Length of the store of main's staging buffer (Command::MAX_SIZE, 1024, in the
\* firmware).
StagingSize == 12
\* The number of commands the host sends.
MaxCmds == 2
\* Longest write_data and read_buffer handed to transfer_with_cs by SpiSpec.
MaxXfer == 2
\* Byte values the host puts after the opcode byte.
FieldBytes == {0, 1, 2}
\* Byte values the host puts in opcode position: every opcode, and two bytes
\* that are none.
OpBytes == 0..22 \cup {255}

VARIABLES
    buf,        \* BufSpec: the Buffer under test, [store, rpos, wpos]
    unread,     \* BufSpec: the bytes accepted since the last clear, minus those consumed
    last,       \* BufSpec: the last operation, its arguments, its result and what it saw
    fullConsumed, \* BufSpec: k when the last operation was consume(k) on a full buffer, else 0
    input,      \* CodecSpec: the bytes received so far
    parsed,     \* CodecSpec: Command::parse(input)
    packet,     \* EncSpec: the ResponsePacket to encode
    dst,        \* EncSpec: the destination slice
    encoded,    \* EncSpec: the outcome of packet.to_bytes(dst), or None
    ser_buf,    \* main: the staging Buffer
    spi_manager, \* SerProg: Option<SpiManager>, <<m>> or <<>>
    response_buffer, \* main: the response buffer
    wire,       \* the bytes the host has sent and serial.read has not yet returned
    sent,       \* the commands the host has sent
    tx,         \* the bytes serial.write has accepted, in order
    handled,    \* the responses process_command has returned as Ok, in order
    pc,         \* main: "process" (in process_command), "send" (in send_response), "halted"
    outcome,    \* the last pass of process_command: status, response, command
    enc,        \* the outcome of the last to_bytes of main, or None
    write_offset, \* send_response: write_offset
    send_count, \* send_response: count
    faulted,    \* whether serial.read has returned an error
    spi,        \* SpiSpec: the SpiManager under test
    spi_call,   \* SpiSpec: the last enable, disable or configure: its frequency, the manager it found
    xfer        \* SpiSpec: the last call of transfer_with_cs, its arguments and its outcome

bufVars == <<buf, unread, last, fullConsumed>>
codecVars == <<input, parsed>>
encVars == <<packet, dst, encoded>>
sysVars == <<ser_buf, spi_manager, response_buffer, wire, sent, tx, handled, pc, outcome,
             enc, write_offset, send_count, faulted>>
spiVars == <<spi, spi_call, xfer>>
vars == <<bufVars, codecVars, encVars, sysVars, spiVars>>
\* What the actions of each specification leave alone.
notBuf == <<codecVars, encVars, sysVars, spiVars>>
notCodec == <<bufVars, encVars, sysVars, spiVars>>
notEnc == <<bufVars, codecVars, sysVars, spiVars>>
notSys == <<bufVars, codecVars, encVars, spiVars>>
notSpi == <<bufVars, codecVars, encVars, sysVars>>

Min(a, b) == IF a <= b THEN a ELSE b

\* All sequences over S of length at most n.
SeqsUpTo(S, n) == UNION {[1..k -> S] : k \in 0..n}

(***************************************************************************)
(* Buffer (src/src/buffer.rs).  A buffer value is [store, rpos, wpos].     *)
(***************************************************************************)
\* Buffer::new
Buffer_new(store) == [store |-> store, rpos |-> 0, wpos |-> 0]

\* A plausible slip in clear: only the read cursor is reset.
clear_rpos_only(b) == [b EXCEPT !.rpos = 0]

\* Buffer::clear
clear(b) == [b EXCEPT !.rpos = 0, !.wpos = 0]

\* Buffer::available_read
available_read(b) == b.wpos - b.rpos

\* Buffer::available_write_without_discard
available_write_without_discard(b) == Len(b.store) - b.wpos

\* Buffer::available_write
available_write(b) == available_write_without_discard(b) + b.rpos

\* A plausible slip in consume: the amount is not clamped to the unread bytes.
consume_unclamped(b, amt) ==
    LET store_len == Len(b.store)
        rpos1 == b.rpos + amt
    IN  IF rpos1 >= store_len
        THEN [b EXCEPT !.rpos = rpos1 % store_len, !.wpos = b.wpos % store_len]
        ELSE [b EXCEPT !.rpos = rpos1]

\* Buffer::consume
consume(b, amt) ==
    LET count == Min(amt, available_read(b))
        store_len == Len(b.store)
        rpos1 == b.rpos + count
    IN  IF rpos1 >= store_len
        THEN [b EXCEPT !.rpos = rpos1 % store_len, !.wpos = b.wpos % store_len]
        ELSE [b EXCEPT !.rpos = rpos1]

\* A plausible slip in discard_already_read_data: the cursors are rebased but
\* the unread bytes are not moved to the front of the store.
discard_without_copy(b) ==
    [b EXCEPT !.wpos = b.wpos - b.rpos, !.rpos = 0]

\* Buffer::discard_already_read_data: ptr::copy of the unread bytes to offset 0
\* (a memmove: the ranges may overlap), then both cursors are rebased.
discard_already_read_data(b) ==
    LET n == available_read(b)
        moved == IF b.rpos # Len(b.store)
                 THEN [i \in 1..Len(b.store) |->
                         IF i <= n THEN b.store[b.rpos + i] ELSE b.store[i]]
                 ELSE b.store
    IN  [store |-> moved, wpos |-> b.wpos - b.rpos, rpos |-> 0]

\* store with data copied to store[at .. at + Len(data)) (Rust indices).
copy_from_slice(store, at, data) ==
    [i \in 1..Len(store) |->
        IF i > at /\ i <= at + Len(data) THEN data[i - at] ELSE store[i]]

\* A plausible slip in write: all or nothing, data that does not fit entirely
\* is refused.
write_all_or_nothing(b, data) ==
    LET b1 == IF Len(data) > available_write_without_discard(b) /\ b.rpos > 0
              THEN discard_already_read_data(b)
              ELSE b
    IN  IF Len(data) = 0 \/ Len(data) > available_write_without_discard(b1)
        THEN [buf |-> b1, ret |-> 0]
        ELSE [buf |-> [b1 EXCEPT !.store = copy_from_slice(b1.store, b1.wpos, data),
                                 !.wpos = b1.wpos + Len(data)],
              ret |-> Len(data)]

\* A plausible slip in write: the compaction is forgotten.
write_without_discard(b, data) ==
    LET count == Min(available_write_without_discard(b), Len(data))
    IN  IF count = 0
        THEN [buf |-> b, ret |-> 0]
        ELSE [buf |-> [b EXCEPT !.store = copy_from_slice(b.store, b.wpos,
                                                           SubSeq(data, 1, count)),
                                !.wpos = b.wpos + count],
              ret |-> count]

\* Buffer::write: the buffer afterwards and the number of bytes written.
write(b, data) ==
    LET b1 == IF Len(data) > available_write_without_discard(b) /\ b.rpos > 0
              THEN discard_already_read_data(b)
              ELSE b
        count == Min(available_write_without_discard(b1), Len(data))
    IN  IF count = 0
        THEN [buf |-> b1, ret |-> 0]
        ELSE [buf |-> [b1 EXCEPT !.store = copy_from_slice(b1.store, b1.wpos,
                                                            SubSeq(data, 1, count)),
                                 !.wpos = b1.wpos + count],
              ret |-> count]

\* A plausible slip in write_all: the write cursor advances past what the
\* producer wrote even when the producer reports failure.
write_all_commit_on_error(b, max_count, bytes, ok) ==
    IF max_count > available_write_without_discard(b) /\ max_count > available_write(b)
    THEN [buf |-> b, ret |-> 0, ok |-> TRUE, called |-> FALSE]
    ELSE LET b1 == IF max_count > available_write_without_discard(b)
                   THEN discard_already_read_data(b)
                   ELSE b
             n == Min(Len(bytes), max_count)
             filled == copy_from_slice(b1.store, b1.wpos, SubSeq(bytes, 1, n))
         IN  [buf |-> [b1 EXCEPT !.store = filled, !.wpos = b1.wpos + n],
              ret |-> IF ok THEN n ELSE 0, ok |-> ok, called |-> TRUE]

\* Buffer::write_all.  The producer f is given by its outcome: the bytes it
\* puts at the start of the reserved region (at most max_count of them) and
\* whether it reports Ok(Len(bytes)) or an error.  called tells whether f ran.
write_all(b, max_count, bytes, ok) ==
    IF max_count > available_write_without_discard(b) /\ max_count > available_write(b)
    THEN [buf |-> b, ret |-> 0, ok |-> TRUE, called |-> FALSE]
    ELSE LET b1 == IF max_count > available_write_without_discard(b)
                   THEN discard_already_read_data(b)
                   ELSE b
             n == Min(Len(bytes), max_count)
             filled == copy_from_slice(b1.store, b1.wpos, SubSeq(bytes, 1, n))
         IN  IF ok
             THEN [buf |-> [b1 EXCEPT !.store = filled, !.wpos = b1.wpos + n],
                   ret |-> n, ok |-> TRUE, called |-> TRUE]
             ELSE [buf |-> [b1 EXCEPT !.store = filled],
                   ret |-> 0, ok |-> FALSE, called |-> TRUE]

\* A plausible slip in read: the cursor moves past the bytes handed to f.
read_and_consume(b, max_count) ==
    LET count == Min(max_count, available_read(b))
    IN  [buf |-> consume(b, count),
         slice |-> SubSeq(b.store, b.rpos + 1, b.rpos + count)]

\* Buffer::read: the slice handed to the consumer f, and the Buffer after the
\* call, of which read assigns no field.
read(b, max_count) ==
    LET count == Min(max_count, available_read(b))
    IN  [buf |-> b, slice |-> SubSeq(b.store, b.rpos + 1, b.rpos + count)]

(***************************************************************************)
(* BufSpec: a Buffer driven by an arbitrary client.                        *)
(***************************************************************************)
NoOp ==
    [op |-> "new", data |-> <<>>, amt |-> 0, ret |-> 0, ok |-> TRUE, called |-> FALSE,
     slice |-> <<>>, preUnread |-> <<>>, preRead |-> 0, preWrite |-> Capacity,
     preRpos |-> 0, k |-> 0]

BufStart ==
    /\ buf = Buffer_new([i \in 1..Capacity |-> 0])
    /\ unread = <<>>
    /\ last = NoOp
    /\ fullConsumed = 0

\* What every operation records of the state it found.
Seen(op) ==
    [NoOp EXCEPT !.op = op, !.preUnread = unread, !.preRead = available_read(buf),
                 !.preWrite = available_write(buf), !.preRpos = buf.rpos,
                 !.k = fullConsumed]

Write ==
    \E data \in SeqsUpTo(DataBytes, MaxData) :
        LET r == write(buf, data)
        IN  /\ buf' = r.buf
            /\ unread' = unread \o SubSeq(data, 1, r.ret)
            /\ last' = [Seen("write") EXCEPT !.data = data, !.ret = r.ret]
            /\ fullConsumed' = 0
            /\ UNCHANGED notBuf

WriteAll ==
    \E max_count \in 0..MaxData, ok \in BOOLEAN :
      \E bytes \in SeqsUpTo(DataBytes, Min(max_count, Capacity)) :
        LET r == write_all(buf, max_count, bytes, ok)
        IN  /\ buf' = r.buf
            /\ unread' = IF r.called /\ r.ok THEN unread \o bytes ELSE unread
            /\ last' = [Seen("write_all") EXCEPT !.data = bytes, !.amt = max_count,
                          !.ret = r.ret, !.ok = r.ok, !.called = r.called]
            /\ fullConsumed' = 0
            /\ UNCHANGED notBuf

Read ==
    \E max_count \in 0..MaxData :
        /\ last' = [Seen("read") EXCEPT !.amt = max_count, !.slice = read(buf, max_count).slice]
        /\ buf' = read(buf, max_count).buf
        /\ unread' = unread
        /\ fullConsumed' = 0
        /\ UNCHANGED notBuf

Consume ==
    \E amt \in 0..MaxData :
        /\ buf' = consume(buf, amt)
        /\ unread' = SubSeq(unread, Min(amt, Len(unread)) + 1, Len(unread))
        /\ last' = [Seen("consume") EXCEPT !.amt = amt]
        /\ fullConsumed' = IF available_write(buf) = 0 /\ amt >= 1 /\ amt <= Len(buf.store)
                           THEN amt ELSE 0
        /\ UNCHANGED notBuf

Clear ==
    /\ buf' = clear(buf)
    /\ unread' = <<>>
    /\ last' = Seen("clear")
    /\ fullConsumed' = 0
    /\ UNCHANGED notBuf

(***************************************************************************)
(* OpCode (src/src/opcode.rs) and Command::parse (src/src/command.rs).     *)
(* A nom result is Ok(rest, val), Incomplete or Error.                     *)
(***************************************************************************)
Ok(rest, val) == [kind |-> "Ok", rest |-> rest, val |-> val]
Incomplete == [kind |-> "Incomplete", rest |-> <<>>, val |-> 0]
Error == [kind |-> "Error", rest |-> <<>>, val |-> 0]

\* The discriminants of enum OpCode.
OpCodeName(n) ==
    CASE n = 0 -> "Nop"        [] n = 1 -> "QIface"     [] n = 2 -> "QCmdMap"
      [] n = 3 -> "QPgmName"   [] n = 4 -> "QSerBuf"    [] n = 5 -> "QBusType"
      [] n = 6 -> "QChipSize"  [] n = 7 -> "QOpBuf"     [] n = 8 -> "QWrnMaxLen"
      [] n = 9 -> "RByte"      [] n = 10 -> "RNBytes"   [] n = 11 -> "OInit"
      [] n = 12 -> "OWriteB"   [] n = 13 -> "OWriteN"   [] n = 14 -> "ODelay"
      [] n = 15 -> "OExec"     [] n = 16 -> "SyncNop"   [] n = 17 -> "QRdnMaxLen"
      [] n = 18 -> "SBusType"  [] n = 19 -> "OSpiOp"    [] n = 20 -> "SSpiFreq"
      [] n = 21 -> "SPinState"
      [] OTHER -> "Invalid"

\* A plausible slip in OpCode::from_u8: the bound is off by one, so that the
\* byte 0x16 is transmuted into an OpCode.
from_u8_off_by_one(n) == IF n <= 22 THEN <<n>> ELSE <<>>

\* OpCode::from_u8: Some(opcode) is <<n>>, None is <<>>.
from_u8(n) == IF n <= 21 THEN <<n>> ELSE <<>>

\* nom::number::streaming::le_u8
le_u8(i) == IF Len(i) < 1 THEN Incomplete ELSE Ok(SubSeq(i, 2, Len(i)), i[1])

\* A plausible slip in le_u24: the bytes are read big-endian.
be_u24(i) ==
    IF Len(i) < 3 THEN Incomplete
    ELSE Ok(SubSeq(i, 4, Len(i)), i[1] * 65536 + i[2] * 256 + i[3])

\* nom::number::streaming::le_u24
le_u24(i) ==
    IF Len(i) < 3 THEN Incomplete
    ELSE Ok(SubSeq(i, 4, Len(i)), i[1] + i[2] * 256 + i[3] * 65536)

\* nom::number::complete::le_u32: too short an input is an error, not Incomplete.
le_u32(i) ==
    IF Len(i) < 4 THEN Error
    ELSE Ok(SubSeq(i, 5, Len(i)), i[1] + i[2] * 256 + i[3] * 65536 + i[4] * 16777216)

\* nom::bytes::streaming::take
take(n, i) ==
    IF Len(i) < n THEN Incomplete ELSE Ok(SubSeq(i, n + 1, Len(i)), SubSeq(i, 1, n))

\* Command::opcode: map_opt(le_u8, OpCode::from_u8)
opcode(i) ==
    LET r == le_u8(i)
    IN  IF r.kind # "Ok" THEN r
        ELSE IF from_u8(r.val) = <<>> THEN Error
        ELSE Ok(r.rest, from_u8(r.val)[1])

\* Command::rbyte
rbyte(i) ==
    LET a == le_u24(i)
    IN  IF a.kind # "Ok" THEN a ELSE Ok(a.rest, [tag |-> "RByte", addr |-> a.val])

\* Command::rnbytes
rnbytes(i) ==
    LET a == le_u24(i)
        n == le_u24(a.rest)
    IN  IF a.kind # "Ok" THEN a
        ELSE IF n.kind # "Ok" THEN n
        ELSE Ok(n.rest, [tag |-> "RNBytes", addr |-> a.val, n |-> n.val])

\* Command::owriteb
owriteb(i) ==
    LET a == le_u24(i)
        d == le_u8(a.rest)
    IN  IF a.kind # "Ok" THEN a
        ELSE IF d.kind # "Ok" THEN d
        ELSE Ok(d.rest, [tag |-> "OWriteB", addr |-> a.val, data |-> d.val])

\* Command::owriten
owriten(i) ==
    LET n == le_u24(i)
        a == le_u24(n.rest)
        d == take(n.val, a.rest)
    IN  IF n.kind # "Ok" THEN n
        ELSE IF a.kind # "Ok" THEN a
        ELSE IF d.kind # "Ok" THEN d
        ELSE Ok(d.rest, [tag |-> "OWriteN", addr |-> a.val, data |-> d.val])

\* Command::odelay
odelay(i) ==
    LET t == le_u32(i)
    IN  IF t.kind # "Ok" THEN t ELSE Ok(t.rest, [tag |-> "ODelay", us |-> t.val])

\* Command::sbustype
sbustype(i) ==
    LET f == le_u8(i)
    IN  IF f.kind # "Ok" THEN f ELSE Ok(f.rest, [tag |-> "SBusType", bustype |-> f.val])

\* Command::ospiop
ospiop(i) ==
    LET slen == le_u24(i)
        rlen == le_u24(slen.rest)
        d == take(slen.val, rlen.rest)
    IN  IF slen.kind # "Ok" THEN slen
        ELSE IF rlen.kind # "Ok" THEN rlen
        ELSE IF d.kind # "Ok" THEN d
        ELSE Ok(d.rest, [tag |-> "OSpiOp", rlen |-> rlen.val, data |-> d.val])

\* Command::sspifreq
sspifreq(i) ==
    LET f == le_u32(i)
    IN  IF f.kind # "Ok" THEN f ELSE Ok(f.rest, [tag |-> "SSpiFreq", freq |-> f.val])

\* Command::spinstate
spinstate(i) ==
    LET s == le_u8(i)
    IN  IF s.kind # "Ok" THEN s
        ELSE Ok(s.rest, [tag |-> "SPinState", state |-> (s.val = 0)])

\* Command::parse
parse(i) ==
    LET o == opcode(i)
        res == o.rest
        name == OpCodeName(o.val)
    IN  IF o.kind # "Ok" THEN o
        ELSE CASE name = "RByte" -> rbyte(res)
               [] name = "RNBytes" -> rnbytes(res)
               [] name = "OWriteB" -> owriteb(res)
               [] name = "OWriteN" -> owriten(res)
               [] name = "ODelay" -> odelay(res)
               [] name = "SBusType" -> sbustype(res)
               [] name = "OSpiOp" -> ospiop(res)
               [] name = "SSpiFreq" -> sspifreq(res)
               [] name = "SPinState" -> spinstate(res)
               [] OTHER -> Ok(res, [tag |-> name])

\* process_command: bytes_parsed = n - bytes_left.len()
bytes_parsed(n, r) == n - Len(r.rest)

(***************************************************************************)
(* CodecSpec: the host's bytes arrive one at a time and Command::parse is  *)
(* applied to what has arrived, as process_command does on every pass.     *)
(***************************************************************************)
CodecStart ==
    /\ input = <<>>
    /\ parsed = parse(<<>>)

Arrive ==
    /\ Len(input) < MaxInput
    /\ \E b \in (IF input = <<>> THEN OpBytes ELSE FieldBytes) :
        /\ input' = Append(input, b)
        /\ parsed' = parse(input')
    /\ UNCHANGED notCodec

(***************************************************************************)
(* ResponsePacket (src/src/response_packet.rs).                            *)
(***************************************************************************)
\* ResponseType::Ack and ResponseType::Nak as u8.
Ack == 6
Nak == 21
\* MAX_BUFFER_SIZE, the length of the data array of ResponsePacket::SpiOp.
MAX_BUFFER_SIZE == 128
\* ResponsePacket::MAX_SIZE, the length of main's response_buffer.
MAX_SIZE == 33

\* A destination position that to_bytes has not written.
Untouched == 0 - 1

\* u16::to_le_bytes and u32::to_le_bytes
to_le_bytes2(x) == <<x % 256, (x \div 256) % 256>>
to_le_bytes4(x) ==
    <<x % 256, (x \div 256) % 256, (x \div 65536) % 256, (x \div 16777216) % 256>>

\* A plausible slip in packet_size: the status byte of QCmdMap is not counted.
packet_size_short(p) ==
    CASE p.tag = "Nop" -> 1
      [] p.tag = "QIface" -> 3
      [] p.tag = "QCmdMap" -> 32
      [] p.tag = "QPgmName" -> 17
      [] p.tag = "QSerBuf" -> 3
      [] p.tag = "QBusType" -> 2
      [] p.tag = "QOpBuf" -> 3
      [] p.tag = "QWrnMaxLen" -> 4
      [] p.tag = "SyncNop" -> 2
      [] p.tag = "SBusType" -> 1
      [] p.tag = "SpiOp" -> p.rlen + 1
      [] p.tag = "SSpiFreq" -> 5

\* ResponsePacket::packet_size
packet_size(p) ==
    CASE p.tag = "Nop" -> 1
      [] p.tag = "QIface" -> 3
      [] p.tag = "QCmdMap" -> 33
      [] p.tag = "QPgmName" -> 17
      [] p.tag = "QSerBuf" -> 3
      [] p.tag = "QBusType" -> 2
      [] p.tag = "QOpBuf" -> 3
      [] p.tag = "QWrnMaxLen" -> 4
      [] p.tag = "SyncNop" -> 2
      [] p.tag = "SBusType" -> 1
      [] p.tag = "SpiOp" -> p.rlen + 1
      [] p.tag = "SSpiFreq" -> 5

\* The outcomes of to_bytes: Ok(packet_size) with the destination as written,
\* Err(BufferTooSmall), or a panic (an index out of range, or copy_from_slice
\* on slices of different lengths).
Encoded(n, b) == [kind |-> "Ok", n |-> n, buf |-> b]
BufferTooSmall == [kind |-> "BufferTooSmall", n |-> 0, buf |-> <<>>]
Panic == [kind |-> "Panic", n |-> 0, buf |-> <<>>]

\* b[at] = x (Rust index); <<>> stands for the panic of an index out of range.
set_byte(b, at, x) ==
    IF b = <<>> \/ at >= Len(b) THEN <<>> ELSE [b EXCEPT ![at + 1] = x]

\* b[from..to].copy_from_slice(src) (Rust indices); <<>> stands for the panic of
\* a range out of order or out of range, or of a length mismatch.
copy_range(b, from, to, src) ==
    IF b = <<>> \/ from > to \/ to > Len(b) \/ to - from # Len(src) THEN <<>>
    ELSE [i \in 1..Len(b) |-> IF i > from /\ i <= to THEN src[i - from] ELSE b[i]]

\* ResponsePacket::to_bytes
to_bytes(p, b) ==
    LET size == packet_size(p)
        buf_size == Len(b)
        b0 == set_byte(b, 0, IF p.tag \in {"SBusType", "SpiOp", "SSpiFreq"}
                             THEN p.res ELSE Ack)
        out ==
          CASE p.tag = "Nop" -> b0
            [] p.tag = "QIface" -> copy_range(b0, 1, buf_size, to_le_bytes2(p.iface_version))
            [] p.tag = "QCmdMap" -> copy_range(b0, 1, buf_size, p.cmd_map)
            [] p.tag = "QPgmName" -> copy_range(b0, 1, buf_size, p.pgm_name)
            [] p.tag = "QSerBuf" -> copy_range(b0, 1, buf_size, to_le_bytes2(p.size))
            [] p.tag = "QBusType" -> set_byte(b0, 1, p.bus_type)
            [] p.tag = "QOpBuf" -> copy_range(b0, 1, buf_size, to_le_bytes2(p.size))
            [] p.tag = "QWrnMaxLen" ->
                 copy_range(b0, 1, buf_size, SubSeq(to_le_bytes4(p.size), 1, 3))
            [] p.tag = "SyncNop" -> set_byte(b0, 1, Nak)
            [] p.tag = "SBusType" -> b0
            [] p.tag = "SpiOp" ->
                 IF p.res = Nak THEN b0
                 ELSE IF p.rlen > Len(p.data) THEN <<>>
                 ELSE copy_range(b0, 1, p.rlen, SubSeq(p.data, 1, p.rlen))
            [] p.tag = "SSpiFreq" ->
                 IF p.res = Nak THEN b0
                 ELSE copy_range(b0, 1, buf_size, to_le_bytes4(p.set_freq))
    IN  IF buf_size < size THEN BufferTooSmall
        ELSE IF out = <<>> THEN Panic
        ELSE Encoded(size, out)

(***************************************************************************)
(* EncSpec: to_bytes applied to response packets of every variant and to   *)
(* destinations of every length up to MaxDst.                              *)
(***************************************************************************)
\* The payloads the packets carry.
Bitmap == [i \in 1..32 |-> IF i = 1 THEN 63 ELSE 0]
Name16 == [i \in 1..16 |-> IF i <= 2 THEN 115 ELSE 0]
RxData == [i \in 1..MAX_BUFFER_SIZE |-> 255]

Packets ==
    {[tag |-> "Nop"], [tag |-> "SyncNop"]}
    \cup {[tag |-> "QIface", iface_version |-> v] : v \in {1, 258}}
    \cup {[tag |-> "QCmdMap", cmd_map |-> Bitmap]}
    \cup {[tag |-> "QPgmName", pgm_name |-> Name16]}
    \cup {[tag |-> t, size |-> 1024] : t \in {"QSerBuf", "QOpBuf", "QWrnMaxLen"}}
    \cup {[tag |-> "QBusType", bus_type |-> 8]}
    \cup {[tag |-> "SBusType", res |-> r] : r \in {Ack, Nak}}
    \cup {[tag |-> "SpiOp", res |-> r, rlen |-> n, data |-> RxData] :
            r \in {Ack, Nak}, n \in {0, 1, 2, 32, 33, 128, 129}}
    \cup {[tag |-> "SSpiFreq", res |-> r, set_freq |-> f] :
            r \in {Ack, Nak}, f \in {0, 1000000}}

None == [kind |-> "None", n |-> 0, buf |-> <<>>]

\* No packet offered: the encoder's variables in the other specifications.
EncIdle ==
    /\ packet = [tag |-> "Nop"]
    /\ dst = <<>>
    /\ encoded = [kind |-> "Idle", n |-> 0, buf |-> <<>>]

\* A caller picks a packet and a destination that nothing has written yet.
EncStart ==
    /\ packet \in Packets
    /\ \E len \in 0..MaxDst : dst = [i \in 1..len |-> Untouched]
    /\ encoded = None

Encode ==
    /\ encoded = None
    /\ encoded' = to_bytes(packet, dst)
    /\ UNCHANGED <<packet, dst>>
    /\ UNCHANGED notEnc

(***************************************************************************)
(* SpiManager (src/src/spi.rs).  A manager is [disabled, enabled, freq,    *)
(* last_freq]: disabled and enabled tell whether the Option of that name   *)
(* is Some, freq is the clock of the enabled peripheral (0 when there is   *)
(* none).                                                                  *)
(***************************************************************************)
\* SpiManager::new: last_freq is 1 MHz.
SpiManager_new ==
    [disabled |-> TRUE, enabled |-> FALSE, freq |-> 0, last_freq |-> 1000000]

\* SpiManager::disable
disable(m) ==
    IF m.enabled THEN [m EXCEPT !.enabled = FALSE, !.freq = 0, !.disabled = TRUE] ELSE m

\* SpiManager::is_disabled
is_disabled(m) == m.disabled

\* A plausible slip in enable: the Disabled parts are not taken out.
enable_without_take(m, freq) ==
    IF m.disabled THEN [m EXCEPT !.enabled = TRUE, !.freq = freq] ELSE m

\* SpiManager::enable
enable(m, freq) ==
    IF m.disabled THEN [m EXCEPT !.disabled = FALSE, !.enabled = TRUE, !.freq = freq] ELSE m

\* A plausible slip in configure: an enabled peripheral is not disabled first.
configure_without_disable(m, freq) ==
    enable([m EXCEPT !.last_freq = freq], freq)

\* SpiManager::configure
configure(m, freq) ==
    LET m1 == [m EXCEPT !.last_freq = freq]
    IN  IF m1.enabled THEN enable(disable(m1), freq) ELSE enable(m1, freq)

\* What the pins and the bus do during a transfer: the step that fails, if any.
HwOutcomes == {"none", "set_low", "write", "transfer", "set_high"}

\* A plausible slip in transfer_with_cs: the read buffer is filled with 0xFF
\* before the write phase.
transfer_fill_first(m, write_data, read_buffer, hw, device) ==
    LET filled == [i \in 1..Len(read_buffer) |-> 255]
        captured == [i \in 1..Len(read_buffer) |-> device]
        fl == IF read_buffer # <<>> THEN <<"fill">> ELSE <<>>
        wr == IF write_data # <<>> THEN <<"write">> ELSE <<>>
        rd == IF read_buffer # <<>> THEN <<"transfer">> ELSE <<>>
    IN  IF ~m.enabled
        THEN [ok |-> FALSE, read_buffer |-> read_buffer, events |-> <<>>]
        ELSE IF hw = "set_low"
        THEN [ok |-> FALSE, read_buffer |-> read_buffer, events |-> <<>>]
        ELSE IF write_data # <<>> /\ hw = "write"
        THEN [ok |-> FALSE, read_buffer |-> filled, events |-> <<"low">> \o fl \o <<"high">>]
        ELSE IF read_buffer # <<>> /\ hw = "transfer"
        THEN [ok |-> FALSE, read_buffer |-> filled,
              events |-> <<"low">> \o fl \o wr \o <<"high">>]
        ELSE IF hw = "set_high"
        THEN [ok |-> FALSE, read_buffer |-> IF read_buffer # <<>> THEN captured ELSE read_buffer,
              events |-> <<"low">> \o fl \o wr \o rd]
        ELSE [ok |-> TRUE, read_buffer |-> IF read_buffer # <<>> THEN captured ELSE read_buffer,
              events |-> <<"low">> \o fl \o wr \o rd \o <<"high">>]

\* SpiManager::transfer_with_cs: whether it returns Ok, the read buffer
\* afterwards, and what happened on the pins and the bus, in order.  hw names
\* the step that fails, device the byte the flash chip shifts out.
transfer_with_cs(m, write_data, read_buffer, hw, device) ==
    LET filled == [i \in 1..Len(read_buffer) |-> 255]
        captured == [i \in 1..Len(read_buffer) |-> device]
        wr == IF write_data # <<>> THEN <<"write">> ELSE <<>>
        rd == IF read_buffer # <<>> THEN <<"fill", "transfer">> ELSE <<>>
    IN  IF ~m.enabled
        THEN [ok |-> FALSE, read_buffer |-> read_buffer, events |-> <<>>]
        ELSE IF hw = "set_low"
        THEN [ok |-> FALSE, read_buffer |-> read_buffer, events |-> <<>>]
        ELSE IF write_data # <<>> /\ hw = "write"
        THEN [ok |-> FALSE, read_buffer |-> read_buffer, events |-> <<"low", "high">>]
        ELSE IF read_buffer # <<>> /\ hw = "transfer"
        THEN [ok |-> FALSE, read_buffer |-> filled,
              events |-> <<"low">> \o wr \o <<"fill", "high">>]
        ELSE IF hw = "set_high"
        THEN [ok |-> FALSE, read_buffer |-> IF read_buffer # <<>> THEN captured ELSE read_buffer,
              events |-> <<"low">> \o wr \o rd]
        ELSE [ok |-> TRUE, read_buffer |-> IF read_buffer # <<>> THEN captured ELSE read_buffer,
              events |-> <<"low">> \o wr \o rd \o <<"high">>]

(***************************************************************************)
(* SpiSpec: a SpiManager driven by an arbitrary client.                    *)
(***************************************************************************)
\* The bytes the flash chip shifts out.
DeviceBytes == {165}

\* The frequencies, in Hz, that the client configures.
SpiFreqs == {1000000, 2000000}

NoTransfer ==
    [called |-> FALSE, enabled |-> FALSE, write_data |-> <<>>, read_len |-> 0,
     hw |-> "none", ok |-> FALSE, read_buffer |-> <<>>, events |-> <<>>]

NoCall == [op |-> "new", freq |-> 0, before |-> SpiManager_new]

SpiStart ==
    /\ spi = SpiManager_new
    /\ spi_call = NoCall
    /\ xfer = NoTransfer

Configure ==
    \E freq \in SpiFreqs :
        /\ spi' = configure(spi, freq)
        /\ spi_call' = [op |-> "configure", freq |-> freq, before |-> spi]
        /\ UNCHANGED xfer
        /\ UNCHANGED notSpi

Enable ==
    \E freq \in SpiFreqs :
        /\ spi' = enable(spi, freq)
        /\ spi_call' = [op |-> "enable", freq |-> freq, before |-> spi]
        /\ UNCHANGED xfer
        /\ UNCHANGED notSpi

Disable ==
    /\ spi' = disable(spi)
    /\ spi_call' = [op |-> "disable", freq |-> 0, before |-> spi]
    /\ UNCHANGED xfer
    /\ UNCHANGED notSpi

\* One call of transfer_with_cs, which borrows the manager and changes none of
\* its fields.
Transfer ==
    \E write_data \in SeqsUpTo(DataBytes, MaxXfer), read_len \in 0..MaxXfer,
       hw \in HwOutcomes, device \in DeviceBytes :
        LET t == transfer_with_cs(spi, write_data, [i \in 1..read_len |-> 0], hw, device)
        IN  /\ xfer' = [called |-> TRUE, enabled |-> spi.enabled,
                        write_data |-> write_data, read_len |-> read_len, hw |-> hw,
                        ok |-> t.ok, read_buffer |-> t.read_buffer, events |-> t.events]
            /\ UNCHANGED <<spi, spi_call>>
            /\ UNCHANGED notSpi

(***************************************************************************)
(* Constants (src/src/constants.rs, src/src/serprog.rs).                   *)
(***************************************************************************)
I_FACE_VERSION == 1
\* PGM_NAME, "stm32-vserprog" in ASCII.
PGM_NAME == <<115, 116, 109, 51, 50, 45, 118, 115, 101, 114, 112, 114, 111, 103>>
\* BusType::SPI
BusType_SPI == 8
\* CMD_MAP: one bit for each of Nop, QIface, QCmdMap, QPgmName, QSerBuf,
\* QBusType, SyncNop, OSpiOp, SBusType, SSpiFreq and SPinState.
CMD_MAP == 2^0 + 2^1 + 2^2 + 2^3 + 2^4 + 2^5 + 2^16 + 2^19 + 2^18 + 2^20 + 2^21
OP_BUF_SIZE == 1024
SER_BUF_SIZE == 1024

(***************************************************************************)
(* SerProg (src/src/serprog.rs).  spi_manager is <<m>> for Some(m) and     *)
(* <<>> for None.  A handler's outcome is [res, resp, opcode, spi_manager] *)
(* with res one of Ok, WriteFail, NotImplemented, and Panic.               *)
(***************************************************************************)
NoPacket == [tag |-> "none"]
Handled(resp, sm) == [res |-> "Ok", resp |-> resp, opcode |-> "", spi_manager |-> sm]
Failed(res, opc, sm) == [res |-> res, resp |-> NoPacket, opcode |-> opc, spi_manager |-> sm]

\* SerProg::handle_q_iface
handle_q_iface(sm) == Handled([tag |-> "QIface", iface_version |-> I_FACE_VERSION], sm)

\* SerProg::handle_q_cmd_map: the four bytes of CMD_MAP are copied with
\* copy_from_slice into the whole 32-byte array, which panics.
handle_q_cmd_map(sm) ==
    LET cmd_map == copy_range([i \in 1..32 |-> 0], 0, 32, to_le_bytes4(CMD_MAP))
    IN  IF cmd_map = <<>> THEN Failed("Panic", "QCmdMap", sm)
        ELSE Handled([tag |-> "QCmdMap", cmd_map |-> cmd_map], sm)

\* SerProg::handle_q_pgm_name
handle_q_pgm_name(sm) ==
    LET pgm_name == copy_range([i \in 1..16 |-> 0], 0, Len(PGM_NAME), PGM_NAME)
    IN  IF pgm_name = <<>> THEN Failed("Panic", "QPgmName", sm)
        ELSE Handled([tag |-> "QPgmName", pgm_name |-> pgm_name], sm)

\* SerProg::handle_q_serbuf
handle_q_serbuf(sm) == Handled([tag |-> "QSerBuf", size |-> SER_BUF_SIZE], sm)

\* SerProg::handle_q_bus_type
handle_q_bus_type(sm) == Handled([tag |-> "QBusType", bus_type |-> BusType_SPI], sm)

\* SerProg::handle_q_chip_size
handle_q_chip_size(sm) == Failed("NotImplemented", "QChipSize", sm)

\* SerProg::handle_q_op_buf
handle_q_op_buf(sm) == Handled([tag |-> "QOpBuf", size |-> OP_BUF_SIZE], sm)

\* SerProg::handle_q_wrn_max_len
handle_q_wrn_max_len(sm) == Handled([tag |-> "QWrnMaxLen", size |-> SER_BUF_SIZE], sm)

\* SerProg::handle_r_byte
handle_r_byte(sm) == Failed("NotImplemented", "RByte", sm)

\* SerProg::handle_sync_nop
handle_sync_nop(sm) == Handled([tag |-> "SyncNop"], sm)

\* SerProg::handle_s_bus_type
handle_s_bus_type(bustype, sm) ==
    Handled([tag |-> "SBusType", res |-> IF bustype = BusType_SPI THEN Ack ELSE Nak], sm)

\* SpiManager::read_write, which handle_o_spi_op calls and src/ does not hold:
\* the transfer of spec.md section 4.5, by transfer_with_cs, that gives the
\* buffers and the manager back on success.
read_write(m, rx_buffer, tx_data, hw, device) ==
    LET t == transfer_with_cs(m, tx_data, rx_buffer, hw, device)
    IN  [ok |-> t.ok, rx_buffer |-> t.read_buffer, spi |-> m, events |-> t.events]

\* A plausible slip in handle_o_spi_op: the read length of the reply is capped
\* at the size of the receive buffer.
handle_o_spi_op_capped(rlen, tx_data, sm, hw, device) ==
    IF sm = <<>> THEN Failed("WriteFail", "OSpiOp", <<>>)
    ELSE LET t == read_write(sm[1], [i \in 1..MAX_BUFFER_SIZE |-> 0], tx_data, hw, device)
         IN  IF ~t.ok THEN Failed("WriteFail", "OSpiOp", <<>>)
             ELSE Handled([tag |-> "SpiOp", res |-> Ack,
                           rlen |-> Min(rlen, MAX_BUFFER_SIZE),
                           data |-> t.rx_buffer], <<t.spi>>)

\* SerProg::handle_o_spi_op: the manager is taken out of self.spi_manager and
\* put back only when the transfer succeeds.
handle_o_spi_op(rlen, tx_data, sm, hw, device) ==
    IF sm = <<>> THEN Failed("WriteFail", "OSpiOp", <<>>)
    ELSE LET t == read_write(sm[1], [i \in 1..MAX_BUFFER_SIZE |-> 0], tx_data, hw, device)
         IN  IF ~t.ok THEN Failed("WriteFail", "OSpiOp", <<>>)
             ELSE Handled([tag |-> "SpiOp", res |-> Ack, rlen |-> rlen,
                           data |-> t.rx_buffer], <<t.spi>>)

\* SerProg::handle_s_spi_freq
handle_s_spi_freq(freq, sm) ==
    IF freq = 0
    THEN Handled([tag |-> "SSpiFreq", res |-> Nak, set_freq |-> 0], sm)
    ELSE Handled([tag |-> "SSpiFreq", res |-> Ack, set_freq |-> freq],
                 IF sm = <<>> THEN <<>> ELSE <<configure(sm[1], freq)>>)

\* SerProg::handle_command; every command without an arm of its own meets
\* unimplemented!(), a panic.
handle_command(cmd, sm, hw, device) ==
    CASE cmd.tag = "Nop" -> Handled([tag |-> "Nop"], sm)
      [] cmd.tag = "QIface" -> handle_q_iface(sm)
      [] cmd.tag = "QCmdMap" -> handle_q_cmd_map(sm)
      [] cmd.tag = "QPgmName" -> handle_q_pgm_name(sm)
      [] cmd.tag = "QSerBuf" -> handle_q_serbuf(sm)
      [] cmd.tag = "QBusType" -> handle_q_bus_type(sm)
      [] cmd.tag = "QChipSize" -> handle_q_chip_size(sm)
      [] cmd.tag = "QOpBuf" -> handle_q_op_buf(sm)
      [] cmd.tag = "QWrnMaxLen" -> handle_q_wrn_max_len(sm)
      [] cmd.tag = "RByte" -> handle_r_byte(sm)
      [] cmd.tag = "SyncNop" -> handle_sync_nop(sm)
      [] cmd.tag = "SBusType" -> handle_s_bus_type(cmd.bustype, sm)
      [] cmd.tag = "OSpiOp" -> handle_o_spi_op(cmd.rlen, cmd.data, sm, hw, device)
      [] cmd.tag = "SSpiFreq" -> handle_s_spi_freq(cmd.freq, sm)
      [] OTHER -> Failed("Panic", cmd.tag, sm)

\* What a pass of process_command's loop comes to.  status is Incomplete (the
\* loop goes round again), Ok (a response is returned), ReadFail, WriteFail or
\* NotImplemented (an error is returned), or Panic.
PassResult(status, b, resp, opc, m, cmd, parsed_len) ==
    [status |-> status, buffer |-> b, resp |-> resp, opcode |-> opc,
     spi_manager |-> m, cmd |-> cmd, bytes_parsed |-> parsed_len]

\* A plausible slip in process_command: everything unread is consumed with
\* the command.
process_handled_consume_all(b, len, cmd, h) ==
    IF h.res = "Ok"
    THEN PassResult("Ok", consume(b, available_read(b)), h.resp, "", h.spi_manager, cmd, len)
    ELSE PassResult(h.res, b, NoPacket, h.opcode, h.spi_manager, cmd, len)

\* process_command after handle_command: an error of the handler is returned
\* by the ? operator before buffer.consume(bytes_parsed) is reached.
process_handled(b, len, cmd, h) ==
    IF h.res = "Ok"
    THEN PassResult("Ok", consume(b, len), h.resp, "", h.spi_manager, cmd, len)
    ELSE PassResult(h.res, b, NoPacket, h.opcode, h.spi_manager, cmd, len)

\* process_command after Command::parse over the n unread bytes: the match on
\* its result, then handle_command.
process_parsed(b, n, r, sm, hw, device) ==
    IF r.kind = "Incomplete" THEN PassResult("Incomplete", b, NoPacket, "", sm, NoPacket, 0)
    ELSE IF r.kind = "Error" THEN PassResult("ReadFail", b, NoPacket, "", sm, NoPacket, 0)
    ELSE process_handled(b, bytes_parsed(n, r), r.val,
                         handle_command(r.val, sm, hw, device))

\* process_command after buffer.write_all(.., serial.read): an error of
\* serial.read is returned as ReadFail.
process_filled(w, sm, hw, device) ==
    IF ~w.ok THEN PassResult("ReadFail", w.buf, NoPacket, "", sm, NoPacket, 0)
    ELSE process_parsed(read(w.buf, available_read(w.buf)).buf, available_read(w.buf),
                        parse(read(w.buf, available_read(w.buf)).slice), sm, hw, device)

\* One pass of the loop of SerProg::process_command and, when the pass leaves
\* the loop, the rest of process_command.  rd is what serial.read does: the
\* bytes it puts into the slice, or an error.
process_command(buffer, sm, rd, hw, device) ==
    process_filled(write_all(buffer, available_write(buffer), rd.bytes, rd.ok),
                   sm, hw, device)

(***************************************************************************)
(* main (src/src/main.rs) and the serial transport.                        *)
(***************************************************************************)
\* The commands the host of MainSpec sends, each the bytes of one message:
\* QIface, Nop, SyncNop, SSpiFreq(0), OInit, QCmdMap, QChipSize, and a byte
\* that is no opcode.
MainCommands ==
    { <<1>>, <<0>>, <<16>>, <<20, 0, 0, 0, 0>>, <<11>>, <<2>>, <<6>>, <<255>> }

\* The commands the host of DispSpec sends: Nop, SSpiFreq(1 MHz), SSpiFreq(0),
\* OSpiOp{slen = 0, rlen = 33}, OSpiOp{slen = 0, rlen = 129},
\* OSpiOp{slen = 2, rlen = 2}, and the first seven bytes of an
\* OSpiOp{slen = 65535, rlen = 0}, whose payload is whatever the host sends next.
DispCommands ==
    { <<0>>, <<20, 64, 66, 15, 0>>, <<20, 0, 0, 0, 0>>,
      <<19, 0, 0, 0, 33, 0, 0>>, <<19, 0, 0, 0, 129, 0, 0>>,
      <<19, 2, 0, 0, 2, 0, 0, 170, 187>>, <<19, 255, 255, 0, 0, 0, 0>> }

\* What serial.read(slice) may do with the bytes on the wire: put the first k
\* of them into the slice and return Ok(k), or return an error.
ReadOutcomes(max_count) ==
    {[ok |-> TRUE, bytes |-> SubSeq(wire, 1, k)] : k \in 0..Min(max_count, Len(wire))}
    \cup {[ok |-> FALSE, bytes |-> <<>>]}

\* Whether a pass whose write_all came to w reaches the SPI bus.
ParsesSpiOp(w) ==
    /\ w.ok
    /\ parse(read(w.buf, available_read(w.buf)).slice).kind = "Ok"
    /\ parse(read(w.buf, available_read(w.buf)).slice).val.tag = "OSpiOp"

\* Whether the pass that serial.read's outcome rd starts reaches the SPI bus:
\* the pins and the bus have an outcome to choose only then.
ReachesBus(rd) ==
    /\ spi_manager # <<>>
    /\ spi_manager[1].enabled
    /\ ParsesSpiOp(write_all(ser_buf, available_write(ser_buf), rd.bytes, rd.ok))

SysStart ==
    /\ ser_buf = Buffer_new([i \in 1..StagingSize |-> 0])
    /\ spi_manager = <<SpiManager_new>>
    /\ response_buffer = [i \in 1..MAX_SIZE |-> 0]
    /\ wire = <<>>
    /\ sent = <<>>
    /\ tx = <<>>
    /\ handled = <<>>
    /\ pc = "process"
    /\ outcome = [status |-> "none", resp |-> NoPacket, opcode |-> "", cmd |-> NoPacket,
                  bytes_parsed |-> 0]
    /\ enc = None
    /\ write_offset = 0
    /\ send_count = 0
    /\ faulted = FALSE

\* The host sends one more command, out of those of cmds.
HostSends(cmds) ==
    /\ Len(sent) < MaxCmds
    /\ \E c \in cmds :
        /\ sent' = Append(sent, c)
        /\ wire' = wire \o c
    /\ UNCHANGED <<ser_buf, spi_manager, response_buffer, tx, handled, pc, outcome, enc,
                   write_offset, send_count, faulted>>
    /\ UNCHANGED notSys

MainHostSend == HostSends(MainCommands)

DispHostSend == HostSends(DispCommands)

\* main's match on Ok(resp): e is resp.to_bytes(&mut response_buffer), whose
\* unwrap panics on BufferTooSmall.  stops tells whether that panic, or one of
\* to_bytes itself, halts everything (panic_halt), as it does in the firmware.
Respond(stops, e) ==
    /\ enc' = e
    /\ IF e.kind = "Ok"
       THEN /\ response_buffer' = e.buf
            /\ send_count' = e.n
            /\ write_offset' = 0
            /\ pc' = IF stops THEN "send" ELSE "process"
       ELSE /\ pc' = IF stops THEN "halted" ELSE "process"
            /\ UNCHANGED <<response_buffer, write_offset, send_count>>

\* main's match on what the pass p of process_command came to.
Match(stops, p) ==
    /\ spi_manager' = p.spi_manager
    /\ handled' = IF p.status = "Ok" THEN Append(handled, p.resp) ELSE handled
    /\ outcome' = [status |-> p.status, resp |-> p.resp, opcode |-> p.opcode,
                   cmd |-> p.cmd, bytes_parsed |-> p.bytes_parsed]
    /\ IF p.status = "Incomplete"
       THEN /\ ser_buf' = p.buffer
            /\ UNCHANGED <<pc, enc, response_buffer, write_offset, send_count>>
       ELSE IF p.status = "Panic"
       THEN /\ ser_buf' = p.buffer
            /\ pc' = "halted"
            /\ UNCHANGED <<enc, response_buffer, write_offset, send_count>>
       ELSE IF p.status # "Ok"
       THEN /\ ser_buf' = clear(p.buffer)
            /\ UNCHANGED <<pc, enc, response_buffer, write_offset, send_count>>
       ELSE /\ ser_buf' = p.buffer
            /\ Respond(stops, to_bytes(p.resp, response_buffer))

\* One pass of process_command's loop, as called by main's loop; when
\* process_command returns, main's match on its result up to the first
\* serial.write of send_response.
Pass(stops) ==
    /\ pc = "process"
    /\ \E rd \in ReadOutcomes(available_write(ser_buf)) :
       \E hw \in (IF ReachesBus(rd) THEN HwOutcomes ELSE {"none"}), device \in DeviceBytes :
            /\ wire' = SubSeq(wire, Len(rd.bytes) + 1, Len(wire))
            /\ faulted' = (faulted \/ ~rd.ok)
            /\ Match(stops, process_command(ser_buf, spi_manager, rd, hw, device))
    /\ UNCHANGED <<sent, tx>>
    /\ UNCHANGED notSys

\* main's loop: process_command, to_bytes(..).unwrap(), send_response.
MainPass == Pass(TRUE)

\* SerProg alone, called as main calls it: every response is encoded into the
\* response buffer, and process_command is called again whatever to_bytes made
\* of the response.
DispPass == Pass(FALSE)

\* A plausible slip in send_response: every serial.write is offered the
\* response from its start.
SendFromStart ==
    /\ pc = "send"
    /\ \E len \in 0..(send_count - write_offset) :
        /\ tx' = tx \o SubSeq(response_buffer, 1, len)
        /\ write_offset' = write_offset + len
        /\ pc' = IF write_offset + len < send_count THEN "send" ELSE "process"
    /\ UNCHANGED <<ser_buf, spi_manager, response_buffer, wire, sent, handled, outcome,
                   enc, send_count, faulted>>
    /\ UNCHANGED notSys

\* One pass of the loop of SerProg::send_response: serial.write accepts the
\* first len bytes of the tail (none when it returns an error or Ok(0)).
Send ==
    /\ pc = "send"
    /\ \E len \in 0..(send_count - write_offset) :
        /\ tx' = tx \o SubSeq(response_buffer, write_offset + 1, write_offset + len)
        /\ write_offset' = write_offset + len
        /\ pc' = IF write_offset + len < send_count THEN "send" ELSE "process"
    /\ UNCHANGED <<ser_buf, spi_manager, response_buffer, wire, sent, handled, outcome,
                   enc, send_count, faulted>>
    /\ UNCHANGED notSys

(***************************************************************************)
(* The specifications.                                                     *)
(***************************************************************************)
BufInit == BufStart /\ CodecStart /\ EncIdle /\ SysStart /\ SpiStart
BufNext == Write \/ WriteAll \/ Read \/ Consume \/ Clear
BufSpec == BufInit /\ [][BufNext]_vars

CodecInit == BufStart /\ CodecStart /\ EncIdle /\ SysStart /\ SpiStart
CodecNext == Arrive
CodecSpec == CodecInit /\ [][CodecNext]_vars

EncInit == BufStart /\ CodecStart /\ EncStart /\ SysStart /\ SpiStart
EncNext == Encode
EncSpec == EncInit /\ [][EncNext]_vars

MainInit == BufStart /\ CodecStart /\ EncIdle /\ SysStart /\ SpiStart
MainNext == MainHostSend \/ MainPass \/ Send
MainSpec == MainInit /\ [][MainNext]_vars

\* main's loop with a transport that does not refuse a pending tail for ever:
\* a serial.write that accepts at least one byte eventually happens.
Accept == Send /\ write_offset' > write_offset
SendInit == MainInit
SendNext == MainHostSend \/ MainPass \/ Send
SendSpec == SendInit /\ [][SendNext]_vars /\ WF_vars(Accept)

DispInit == BufStart /\ CodecStart /\ EncIdle /\ SysStart /\ SpiStart
DispNext == DispHostSend \/ DispPass
DispSpec == DispInit /\ [][DispNext]_vars

SpiInit == BufStart /\ CodecStart /\ EncIdle /\ SysStart /\ SpiStart
SpiNext == Configure \/ Enable \/ Disable \/ Transfer
SpiSpec == SpiInit /\ [][SpiNext]_vars

(***************************************************************************)
(* The wire format of the commands, as the host encodes them: one opcode   *)
(* byte, then the fixed fields, then the payload of a length-prefixed      *)
(* command.                                                                *)
(***************************************************************************)
\* The number of fixed field bytes that follow the opcode byte.
WireFixed(op) ==
    CASE op = 9 -> 3 [] op = 10 -> 6 [] op = 12 -> 4 [] op = 13 -> 6 [] op = 14 -> 4
      [] op = 18 -> 1 [] op = 19 -> 6 [] op = 20 -> 4 [] op = 21 -> 1 [] OTHER -> 0

\* The value of the 3 (4) bytes that start at position at, least significant first.
WireU24(i, at) == i[at] + 256 * i[at + 1] + 256 * 256 * i[at + 2]
WireU32(i, at) == WireU24(i, at) + 256 * 256 * 256 * i[at + 3]

\* i, which starts with an opcode, holds the fixed fields of its command.
WireHasFixed(i) == Len(i) >= 1 + WireFixed(i[1])

\* The encoded length of the command that i, which holds its fixed fields, starts with.
WireLen(i) ==
    1 + WireFixed(i[1]) + (IF i[1] \in {13, 19} THEN WireU24(i, 2) ELSE 0)

\* i is a strict prefix of the encoding of a command.
WireStrictPrefix(i) ==
    \/ i = <<>>
    \/ /\ i[1] <= 21
       /\ (~WireHasFixed(i) \/ Len(i) < WireLen(i))

\* i begins with the complete encoding of a command.
WireComplete(i) ==
    /\ i # <<>>
    /\ i[1] <= 21
    /\ WireHasFixed(i)
    /\ Len(i) >= WireLen(i)

\* The command that i, which begins with a complete encoding, encodes.
WireCommand(i) ==
    CASE i[1] = 9 -> [tag |-> "RByte", addr |-> WireU24(i, 2)]
      [] i[1] = 10 -> [tag |-> "RNBytes", addr |-> WireU24(i, 2), n |-> WireU24(i, 5)]
      [] i[1] = 12 -> [tag |-> "OWriteB", addr |-> WireU24(i, 2), data |-> i[5]]
      [] i[1] = 13 -> [tag |-> "OWriteN", addr |-> WireU24(i, 5),
                       data |-> SubSeq(i, 8, 7 + WireU24(i, 2))]
      [] i[1] = 14 -> [tag |-> "ODelay", us |-> WireU32(i, 2)]
      [] i[1] = 18 -> [tag |-> "SBusType", bustype |-> i[2]]
      [] i[1] = 19 -> [tag |-> "OSpiOp", rlen |-> WireU24(i, 5),
                       data |-> SubSeq(i, 8, 7 + WireU24(i, 2))]
      [] i[1] = 20 -> [tag |-> "SSpiFreq", freq |-> WireU32(i, 2)]
      [] OTHER -> [tag |-> OpCodeName(i[1])]

(***************************************************************************)
(* Claims about Command::parse, under CodecSpec.                           *)
(***************************************************************************)
\* C1: decoding a strict prefix of a valid command encoding, the empty input
\* included, returns Incomplete and never a terminal failure.
C1_PrefixIsIncomplete ==
    WireStrictPrefix(input) => parsed.kind = "Incomplete"

\* C2: decoding an input that begins with a complete command encoding returns
\* that command, its fields decoded little-endian and its payload of exactly
\* the prefixed length, with a consumed count equal to the encoded length; the
\* trailing bytes are left unconsumed.
C2_CompleteDecodes ==
    WireComplete(input) =>
        /\ parsed.kind = "Ok"
        /\ bytes_parsed(Len(input), parsed) = WireLen(input)
        /\ parsed.rest = SubSeq(input, WireLen(input) + 1, Len(input))
        /\ parsed.val.tag = OpCodeName(input[1])
        /\ (input[1] # 21 => parsed.val = WireCommand(input))

\* C2's case: an OSpiOp with a one-byte payload, a read length of 258 and one
\* trailing byte.
C2_Witness ==
    /\ input = <<19, 1, 0, 0, 2, 1, 0, 2, 1>>
    /\ parsed.kind = "Ok"
    /\ parsed.val = [tag |-> "OSpiOp", rlen |-> 258, data |-> <<2>>]
    /\ parsed.rest = <<1>>

\* C3: a byte above 0x15 in opcode position makes decode fail terminally
\* whatever follows; every byte 0x00-0x15 is accepted as an opcode.
C3_OpcodeRange ==
    input # <<>> =>
        IF input[1] > 21
        THEN parsed.kind = "Error"
        ELSE opcode(input).kind = "Ok" /\ opcode(input).val = input[1]

\* C3's case: the byte 0x16 in opcode position, followed by more bytes.
C3_Witness ==
    /\ Len(input) >= 3
    /\ input[1] = 22
    /\ parsed.kind = "Error"

(***************************************************************************)
(* Claims about ResponsePacket::to_bytes, under EncSpec.                   *)
(***************************************************************************)
\* The number of destination bytes that to_bytes wrote.
Written(b) == Cardinality({i \in 1..Len(b) : b[i] # Untouched})

\* C4: a destination shorter than size_of(r) yields BufferTooSmall; any other
\* destination, longer ones included, makes encode succeed, report size_of(r)
\* and write exactly that many bytes.
C4_EncodeFitsOrFails ==
    encoded.kind \in {"Ok", "BufferTooSmall", "Panic"} =>
        IF Len(dst) < packet_size(packet)
        THEN encoded.kind = "BufferTooSmall"
        ELSE /\ encoded.kind = "Ok"
             /\ encoded.n = packet_size(packet)
             /\ Written(encoded.buf) = packet_size(packet)

(***************************************************************************)
(* Claims about the main loop, under MainSpec, and about the responses of  *)
(* the dispatcher, under DispSpec.                                         *)
(***************************************************************************)
\* C5: when the host sends the single byte 0x01 (QIface), the bytes delivered
\* to the transport are exactly 0x06, 0x01, 0x00, and the command byte is
\* consumed from the staging buffer: once process_command has returned the
\* response, the staging buffer is empty, the loop goes on to send, what the
\* transport has received is a prefix of the three bytes, and all three of
\* them when the loop is back at process_command.
C5_QIfaceReply ==
    (sent = <<<<1>>>> /\ outcome.status = "Ok") =>
        /\ available_read(ser_buf) = 0
        /\ pc # "halted"
        /\ Len(tx) <= 3
        /\ tx = SubSeq(<<Ack, 1, 0>>, 1, Len(tx))
        /\ (pc = "process" => tx = <<Ack, 1, 0>>)

\* C6: encoding a response that the dispatcher produced, in reply to whatever
\* sequence of accepted commands, into the response buffer of MAX_SIZE bytes
\* never yields BufferTooSmall.
C6_ResponseFitsMaxSize ==
    enc.kind # "BufferTooSmall"

\* C15: an OSpiOp whose SPI transfer fails, any OSpiOp received while the SPI
\* link is disabled included, is answered with a SpiOp response of status Nak
\* and zero length; process_command returns no error for it and the command
\* loop goes on.  After such a command the manager is disabled, or gone.
C15_FailedTransferIsNak ==
    (/\ outcome.cmd.tag = "OSpiOp"
     /\ (spi_manager = <<>> \/ ~spi_manager[1].enabled))
        => /\ outcome.status = "Ok"
           /\ outcome.resp.tag = "SpiOp"
           /\ outcome.resp.res = Nak
           /\ outcome.resp.rlen = 0

\* C24: after any sequence of commands, those OSpiOp whose transfer fails
\* included, SerProg still holds its SpiManager: spi_manager is never None, so
\* that a later SSpiFreq configures the peripheral and a later OSpiOp reaches
\* it.
C24_ManagerNeverAbsent ==
    /\ spi_manager # <<>>
    /\ (outcome.cmd.tag = "SSpiFreq" /\ outcome.cmd.freq # 0) =>
          (spi_manager[1].enabled /\ spi_manager[1].freq = outcome.cmd.freq)

\* C30: with a transport that delivers the bytes the host sent, every call of
\* process_command returns, whatever the input, a command whose declared
\* payload is larger than the staging buffer included: once the staging buffer
\* is full, the pass of the loop that follows (serial.read has no room to put
\* a byte and returns Ok(0)) does not come to Incomplete again.
C30_FullBufferPassReturns ==
    (pc = "process" /\ available_write(ser_buf) = 0) =>
        process_command(ser_buf, spi_manager, [ok |-> TRUE, bytes |-> <<>>],
                        "none", 165).status # "Incomplete"

\* C16: an OSpiOp whose slen or rlen exceeds the maximum buffer size is
\* answered with Nak and zero length, before any SPI transfer is attempted (the
\* manager is as it was).
C16_OversizeIsNak ==
    [][(/\ pc = "process"
        /\ sent' = sent
        /\ outcome'.cmd.tag = "OSpiOp"
        /\ (outcome'.cmd.rlen > MAX_BUFFER_SIZE \/ Len(outcome'.cmd.data) > MAX_BUFFER_SIZE))
          => /\ outcome'.status = "Ok"
             /\ outcome'.resp.tag = "SpiOp"
             /\ outcome'.resp.res = Nak
             /\ outcome'.resp.rlen = 0
             /\ spi_manager' = spi_manager]_vars

\* C17: SSpiFreq(0) is answered Nak with set_freq = 0 and leaves the SPI link
\* as it was; SSpiFreq(f) with f > 0 is answered Ack with set_freq = f, and
\* whenever that Ack is produced the SPI link is enabled at f afterwards.
C17_SpiFreqReply ==
    [][(/\ pc = "process"
        /\ sent' = sent
        /\ outcome'.cmd.tag = "SSpiFreq")
          => /\ outcome'.status = "Ok"
             /\ outcome'.resp.tag = "SSpiFreq"
             /\ IF outcome'.cmd.freq = 0
                THEN /\ outcome'.resp.res = Nak
                     /\ outcome'.resp.set_freq = 0
                     /\ spi_manager' = spi_manager
                ELSE /\ outcome'.resp.res = Ack
                     /\ outcome'.resp.set_freq = outcome'.cmd.freq
                     /\ spi_manager' # <<>>
                     /\ spi_manager'[1].enabled
                     /\ ~spi_manager'[1].disabled
                     /\ spi_manager'[1].freq = outcome'.cmd.freq]_vars

\* C18: for every opcode that decodes and has no handler (QChipSize, RByte,
\* RNBytes, OInit, OWriteB, OWriteN, ODelay, OExec, QRdnMaxLen, SPinState) the
\* dispatcher returns NotImplemented naming that opcode, and no response byte
\* is sent to the transport for the command.
C18_UnhandledIsNotImplemented ==
    [][(/\ pc = "process"
        /\ sent' = sent
        /\ outcome'.cmd.tag \in {"QChipSize", "RByte", "RNBytes", "OInit", "OWriteB",
                                  "OWriteN", "ODelay", "OExec", "QRdnMaxLen", "SPinState"})
          => /\ outcome'.status = "NotImplemented"
             /\ outcome'.opcode = outcome'.cmd.tag
             /\ tx' = tx
             /\ pc' = "process"]_vars

\* C19: on a transport read error or a terminal decode failure (of the bytes
\* staged so far followed by those the pass took off the wire),
\* process_command reports ReadFail, nothing is sent to the transport, and the
\* whole staging buffer is cleared before the next decode attempt.
C19_ReadFailClears ==
    [][(/\ pc = "process"
        /\ sent' = sent
        /\ \/ faulted' # faulted
           \/ outcome'.status = "ReadFail"
           \/ parse(read(ser_buf, available_read(ser_buf)).slice
                      \o SubSeq(wire, 1, Len(wire) - Len(wire'))).kind = "Error")
          => /\ outcome'.status = "ReadFail"
             /\ tx' = tx
             /\ pc' = "process"
             /\ available_read(ser_buf') = 0
             /\ available_write(ser_buf') = Len(ser_buf'.store)]_vars

\* C19's case: a byte that is no opcode arrived behind nothing, no read of the
\* transport failed, and the staging buffer is empty again.
C19_Witness ==
    /\ outcome.status = "ReadFail"
    /\ ~faulted
    /\ sent # <<>>
    /\ wire = <<>>
    /\ available_read(ser_buf) = 0
    /\ tx = <<>>
    /\ pc = "process"

(***************************************************************************)
(* Claims about SpiManager, under SpiSpec.                                 *)
(***************************************************************************)
\* The number of times e occurs in the sequence events.
Occurrences(e, events) == Cardinality({i \in 1..Len(events) : events[i] = e})

\* C20: transfer_with_cs called while the SPI link is disabled fails without
\* driving chip-select; called while it is enabled, it drives chip-select high
\* exactly once on every exit path: success, write-phase failure, read-phase
\* failure, and failure of the chip-select assert itself.
C20_ChipSelectReleasedOnce ==
    xfer.called =>
        IF ~xfer.enabled
        THEN /\ ~xfer.ok
             /\ Occurrences("low", xfer.events) = 0
             /\ Occurrences("high", xfer.events) = 0
        ELSE (xfer.hw \in {"none", "write", "transfer", "set_low"}
                => Occurrences("high", xfer.events) = 1)

(***************************************************************************)
(* Claims about Buffer, under BufSpec.                                     *)
(***************************************************************************)
\* C7: after any sequence of write, write_all, consume and clear, read presents
\* exactly the bytes accepted since the last clear, in order, minus the
\* consumed prefix; on an empty buffer, write(d) with len(d) <= capacity
\* followed by read(len(d)) yields d.
C7_ReadIsAcceptedMinusConsumed ==
    /\ read(buf, available_read(buf)).slice = unread
    /\ (last.op = "write" /\ last.preRead = 0 /\ Len(last.data) <= Len(buf.store)
            => read(buf, Len(last.data)).slice = last.data)

\* C7's case: a write that compacted the buffer in front of unread bytes.
C7_Witness ==
    /\ last.op = "write"
    /\ last.preRpos > 0
    /\ buf.rpos = 0
    /\ last.preRead > 0
    /\ last.ret > 0
    /\ read(buf, available_read(buf)).slice = last.preUnread \o last.data

\* C8: from a buffer filled to capacity, after consume(k) with 1 <= k <=
\* capacity, a write of m bytes with 1 <= m <= k returns m, never zero, and the
\* unread bytes stay intact and in order ahead of the new bytes.
C8_WriteAfterFullConsume ==
    (last.op = "write" /\ last.k >= 1 /\ Len(last.data) >= 1 /\ Len(last.data) <= last.k)
        => /\ last.ret = Len(last.data)
           /\ last.ret # 0
           /\ read(buf, available_read(buf)).slice = last.preUnread \o last.data

\* C8's case: full, consume(2), then a write of 2 bytes behind the unread byte.
C8_Witness ==
    /\ last.op = "write"
    /\ last.k = 2
    /\ Len(last.data) = 2
    /\ Len(last.preUnread) = Capacity - 2
    /\ last.ret = 2

\* C9: write(d) returns min(len(d), available_write()) as measured before the
\* call; afterwards available_read() has grown and available_write() has shrunk
\* by the returned count.
C9_WriteReturnsMin ==
    last.op = "write" =>
        /\ last.ret = Min(Len(last.data), last.preWrite)
        /\ available_read(buf) = last.preRead + last.ret
        /\ available_write(buf) = last.preWrite - last.ret

\* C9's case: a partial write into the space that compaction reclaimed.
C9_Witness ==
    /\ last.op = "write"
    /\ last.preRpos > 0
    /\ last.ret > 0
    /\ last.ret < Len(last.data)

\* C10, as stated: when len(d) exceeds the total free space, write(d) returns 0
\* and leaves the unread contents unchanged.
C10_OverflowWritesNothing ==
    (last.op = "write" /\ Len(last.data) > last.preWrite)
        => /\ last.ret = 0
           /\ read(buf, available_read(buf)).slice = last.preUnread

\* C10, amended: when len(d) exceeds the total free space, write(d) accepts the
\* first available_write() bytes of d and returns that count (0 only when the
\* buffer is full); the unread contents stay in front of them.
C10_OverflowWritesWhatFits ==
    (last.op = "write" /\ Len(last.data) > last.preWrite)
        => /\ last.ret = last.preWrite
           /\ read(buf, available_read(buf)).slice
                = last.preUnread \o SubSeq(last.data, 1, last.preWrite)

\* C10's case: data longer than the free space, some of which is accepted.
C10_Witness ==
    /\ last.op = "write"
    /\ Len(last.data) > last.preWrite
    /\ last.preWrite >= 1
    /\ last.preUnread # <<>>
    /\ last.ret = last.preWrite

C12_ReadRemoves ==
    last.op = "read" =>
        /\ read(buf, available_read(buf)).slice
             = SubSeq(last.preUnread, Len(last.slice) + 1, Len(last.preUnread))
        /\ (Len(last.slice) = last.preRead => available_read(buf) = 0)

\* C13: write_all(max_count, f): when max_count exceeds available_write(), f
\* is not called and 0 is reported; when f is called and reports failure, no
\* byte is committed (the unread contents, available_read() and
\* available_write() are what they were); when f reports count, exactly the
\* count bytes it wrote are appended to the unread data.
C13_WriteAllCommits ==
    last.op = "write_all" =>
        /\ (last.amt > last.preWrite =>
                /\ ~last.called
                /\ last.ret = 0
                /\ last.ok
                /\ read(buf, available_read(buf)).slice = last.preUnread)
        /\ (last.called /\ ~last.ok =>
                /\ read(buf, available_read(buf)).slice = last.preUnread
                /\ available_read(buf) = last.preRead
                /\ available_write(buf) = last.preWrite)
        /\ (last.called /\ last.ok =>
                /\ last.ret = Len(last.data)
                /\ read(buf, available_read(buf)).slice = last.preUnread \o last.data
                /\ available_read(buf) = last.preRead + last.ret
                /\ available_write(buf) = last.preWrite - last.ret)

\* C13's case: the producer fails after write_all has compacted the buffer in
\* front of unread bytes.
C13_Witness ==
    /\ last.op = "write_all"
    /\ last.called
    /\ ~last.ok
    /\ last.data # <<>>
    /\ last.preRpos > 0
    /\ buf.rpos = 0
    /\ last.preUnread # <<>>

C29_CursorsOrdered ==
    /\ 0 <= buf.rpos
    /\ buf.rpos <= buf.wpos
    /\ buf.wpos <= Len(buf.store)
    /\ Len(buf.store) = Capacity
    /\ available_read(buf) + available_write(buf) = Capacity

\* C29's case: a consume that asks for more than is unread, on a buffer whose
\* cursors are both past the start of the store.
C29_Witness ==
    /\ last.op = "consume"
    /\ last.preRpos > 0
    /\ last.preRead > 0
    /\ last.amt > last.preRead
    /\ buf.rpos = buf.wpos

(***************************************************************************)
(* Claims about main's loop, under SendSpec and MainSpec.                  *)
(***************************************************************************)
\* The last n elements of s.
Suffix(s, n) == SubSeq(s, Len(s) - n + 1, Len(s))

\* The response send_response was called with: &response_buffer[..n].
Response == SubSeq(response_buffer, 1, send_count)

\* C21: send_response hands the transport every byte of the response exactly
\* once and in order: each serial.write is offered the tail not yet accepted
\* and tx grows by what it accepted, after a partial, empty or failed write
\* too.  send_response returns only when the whole response has been accepted,
\* which happens when the transport eventually accepts at least one byte of a
\* pending tail; it never gives up on its own.
C21_SendsWholeResponse ==
    /\ [](pc = "send" =>
            /\ write_offset < send_count
            /\ Len(tx) >= write_offset
            /\ Suffix(tx, write_offset) = SubSeq(Response, 1, write_offset))
    /\ [][pc = "send" =>
            /\ \E len \in 0..(send_count - write_offset) :
                 /\ tx' = tx \o SubSeq(response_buffer, write_offset + 1, write_offset + len)
                 /\ write_offset' = write_offset + len
            /\ response_buffer' = response_buffer /\ send_count' = send_count
            /\ pc' \in {"send", "process"}
            /\ (pc' = "process") = (write_offset' = send_count)
            /\ pc' = "process" => Suffix(tx', send_count) = Response
         ]_<<tx, write_offset, pc, response_buffer, send_count>>
    /\ (pc = "send") ~> (pc = "process" /\ write_offset = send_count)

\* C21's case: a partial write has been accepted and the tail is pending.
C21_Witness ==
    /\ pc = "send"
    /\ write_offset > 0
    /\ write_offset < send_count
    /\ tx = SubSeq(response_buffer, 1, write_offset)

\* Whether CMD_MAP, a u32 below 2^22, has bit n set.
Advertised(n) == n < 22 /\ (CMD_MAP \div 2^n) % 2 = 1

\* Whether the 32-byte bitmap m of a QCmdMap response has bit n set.
BitOf(m, n) == (m[(n \div 8) + 1] \div 2^(n % 8)) % 2 = 1

\* A command of opcode n, as Command::parse decodes it.
CommandOf(n) ==
    [tag |-> OpCodeName(n), bustype |-> BusType_SPI, freq |-> 1000000, rlen |-> 0,
     data |-> <<>>]

\* Whether handle_command has more than NotImplemented or a panic for opcode n.
Implemented(n) ==
    /\ n <= 21
    /\ handle_command(CommandOf(n), <<SpiManager_new>>, "none", 165).res
         \notin {"NotImplemented", "Panic"}

\* C23: QCmdMap is answered with Ack and a 32-byte bitmap in which bit n is
\* set exactly when opcode n is implemented, that is when handle_command has a
\* response for it rather than NotImplemented or a panic; the opcodes that
\* CMD_MAP advertises are those implemented.
C23_CmdMapAgrees ==
    outcome.cmd.tag = "QCmdMap" =>
        /\ outcome.status = "Ok"
        /\ outcome.resp.tag = "QCmdMap"
        /\ Len(outcome.resp.cmd_map) = 32
        /\ \A n \in 0..255 : BitOf(outcome.resp.cmd_map, n) = Implemented(n)
        /\ \A n \in 0..31 : Advertised(n) = Implemented(n)
        /\ enc.kind = "Ok"
        /\ enc.buf[1] = Ack

\* The bytes main sends for a response that to_bytes encoded as e: the first
\* e.n bytes of the response buffer, none when to_bytes or its unwrap panics.
Reply(e) == IF e.kind = "Ok" THEN SubSeq(e.buf, 1, e.n) ELSE <<>>

\* The bytes main sends for the responses h, in order, the first of them
\* encoded into the response buffer rb.  Every response is encoded over what
\* the one before it left in the buffer; a panic ends everything.
RECURSIVE RepliesFrom(_, _)
RepliesAfter(e, h) ==
    IF e.kind = "Ok" THEN Reply(e) \o RepliesFrom(Tail(h), e.buf) ELSE <<>>
RepliesFrom(h, rb) ==
    IF h = <<>> THEN <<>> ELSE RepliesAfter(to_bytes(Head(h), rb), h)

Replies(h) == RepliesFrom(h, [i \in 1..MAX_SIZE |-> 0])

\* All but the last element of s.
Front(s) == SubSeq(s, 1, Len(s) - 1)

C28_ConsumedBeforeHandler ==
    [][(/\ pc = "process"
        /\ sent' = sent
        /\ outcome'.cmd.tag # "none"
        /\ outcome'.status # "Panic")
          => /\ outcome'.bytes_parsed
                  = WireLen(read(ser_buf, available_read(ser_buf)).slice
                               \o SubSeq(wire, 1, Len(wire) - Len(wire')))
             /\ read(ser_buf', available_read(ser_buf')).slice
                  = SubSeq(read(ser_buf, available_read(ser_buf)).slice
                              \o SubSeq(wire, 1, Len(wire) - Len(wire')),
                           outcome'.bytes_parsed + 1,
                           available_read(ser_buf) + Len(wire) - Len(wire'))]_vars

C25_ExactlyOneVariant ==
    /\ spi.disabled # spi.enabled
    /\ is_disabled(spi) = ~spi.enabled
    /\ (spi_call.op = "enable" /\ spi_call.before.enabled) => spi = spi_call.before
    /\ (spi_call.op = "disable" /\ spi_call.before.disabled) => spi = spi_call.before

\* C25's case: enable with another frequency on a manager that is already
\* enabled.
C25_Witness ==
    /\ spi_call.op = "enable"
    /\ spi_call.before.enabled
    /\ spi_call.freq # spi_call.before.freq
    /\ spi.enabled

\* C26: configure(freq), from either state, leaves the manager enabled with
\* the peripheral clocked at freq, and records freq as last_freq.
C26_ConfigureEnablesAtFreq ==
    spi_call.op = "configure" =>
        /\ spi.enabled
        /\ ~spi.disabled
        /\ spi.freq = spi_call.freq
        /\ spi.last_freq = spi_call.freq

\* C26's case: configure on a manager already enabled at another frequency.
C26_Witness ==
    /\ spi_call.op = "configure"
    /\ spi_call.before.enabled
    /\ spi_call.before.freq # spi_call.freq
    /\ spi.freq = spi_call.freq

\* The place of an event in the sequence of transfer_with_cs.
Rank(e) ==
    CASE e = "low" -> 1 [] e = "write" -> 2 [] e = "fill" -> 3
      [] e = "transfer" -> 4 [] e = "high" -> 5

\* C27: within transfer_with_cs on an enabled manager the events occur in the
\* order chip-select low, write (only if write_data is non-empty), fill with
\* 0xFF and transfer (only if the read buffer is non-empty), chip-select high;
\* no byte is shifted while chip-select is high; after a failure of the write
\* phase the read phase is not performed and the read buffer is unchanged.
C27_TransferOrder ==
    (xfer.called /\ xfer.enabled) =>
        /\ \A i, j \in 1..Len(xfer.events) :
              i < j => Rank(xfer.events[i]) < Rank(xfer.events[j])
        /\ xfer.events # <<>> => xfer.events[1] = "low"
        /\ Occurrences("write", xfer.events) > 0 => xfer.write_data # <<>>
        /\ Occurrences("transfer", xfer.events) > 0 =>
              /\ xfer.read_len > 0
              /\ Occurrences("fill", xfer.events) = 1
        /\ Occurrences("fill", xfer.events) > 0 => xfer.read_len > 0
        /\ xfer.ok =>
              /\ xfer.events[1] = "low"
              /\ xfer.events[Len(xfer.events)] = "high"
              /\ (Occurrences("write", xfer.events) = 1) = (xfer.write_data # <<>>)
              /\ (Occurrences("transfer", xfer.events) = 1) = (xfer.read_len > 0)
              /\ xfer.read_len > 0 => \A i \in 1..xfer.read_len : xfer.read_buffer[i] \in DeviceBytes
        /\ (xfer.hw = "write" /\ xfer.write_data # <<>>) =>
              /\ ~xfer.ok
              /\ Occurrences("fill", xfer.events) = 0
              /\ Occurrences("transfer", xfer.events) = 0
              /\ xfer.read_buffer = [i \in 1..xfer.read_len |-> 0]

\* C27's case: the write phase fails in a transfer that has bytes to write
\* and a read buffer to fill.
C27_Witness ==
    /\ xfer.called
    /\ xfer.enabled
    /\ xfer.hw = "write"
    /\ xfer.write_data # <<>>
    /\ xfer.read_len > 0
    /\ ~xfer.ok

====
